---- MODULE Spec2Model ----
(***************************************************************************)
(* A model of mafia, a command line helper that exchanges an MFA token     *)
(* code for AWS session credentials.  The model covers the mfile package   *)
(* (reading the MFA device id from, and saving session credentials to, an  *)
(* INI credentials file), the creds package (the STS call behind a         *)
(* swappable function variable) and the cmd package (the cobra root        *)
(* command that orchestrates them).                                        *)
(*                                                                         *)
(* Strings of the program are TLA+ strings.  A formatted message           *)
(* (fmt.Errorf, fmt.Printf) is the sequence of its literal pieces and its  *)
(* arguments, in the order of the format.  The nil error is the empty      *)
(* sequence.  Values stored in the INI file are tokens without characters  *)
(* that are special to the INI syntax (white space, quotes, # and ;), as   *)
(* AWS key ids, secrets, session tokens and device ARNs are.               *)
(***************************************************************************)
EXTENDS Integers, Sequences, FiniteSets, TLC

\* ------------------------------------------------------------------------
\* Bounds of the model

\* The longest credentials file, in lines, that a behaviour starts with.
MaxLines == 2

\* ------------------------------------------------------------------------
\* Constants of package mfile

DefaultSectionName == "default"

AccessKeyIDKey == "aws_access_key_id"

SecretAccessKeyKey == "aws_secret_access_key"

SessionTokenKey == "aws_session_token"

MfaDeviceIDKey == "mfa_device_id"

sessionSectionSuffix == "-session"

\* DefaultSectionName + sessionSectionSuffix
SessionSectionName == "default-session"

\* The section the INI library keeps for keys that precede any header.
IniDefaultSection == "DEFAULT"

\* ------------------------------------------------------------------------
\* Values

\* The nil error.
NoErr == << >>

\* A nil *string.
NilPtr == "<nil>"

\* The path ResetPackageDefaults computes, usr.HomeDir + "/.aws/credentials".
HomePath == "~/.aws/credentials"

\* A path at which no file ever exists (the tests' "/you/got/no/skin...").
MissingPath == "/no/such/file"

Paths == {HomePath, MissingPath}

\* What fs holds for a path without a file.
NoFile == << [t |-> "nofile", n |-> "", v |-> ""] >>

SecLine(name) == [t |-> "sec", n |-> name, v |-> ""]

KeyLine(k, val) == [t |-> "key", n |-> k, v |-> val]

\* A line the INI parser rejects (no key-value delimiter).
JunkLine == [t |-> "junk", n |-> "", v |-> ""]

\* The lines credentials files of the model start with.
LineAlphabet ==
    { SecLine(DefaultSectionName), SecLine(SessionSectionName), SecLine("other"),
      KeyLine(MfaDeviceIDKey, ""), KeyLine(MfaDeviceIDKey, "d1"),
      KeyLine(MfaDeviceIDKey, "d2"), KeyLine(AccessKeyIDKey, "k0"),
      JunkLine }

\* All texts of at most n lines.
Texts(n) == UNION { [1..m -> LineAlphabet] : m \in 0..n }

\* The credential triples (access key id, secret access key, session token)
\* that are saved or returned by the token service.
Triples == { <<"k1", "s1", "t1">>, <<"k2", "s2", "t2">> }

\* ------------------------------------------------------------------------
\* The INI library (gopkg.in/ini.v1) as the program uses it.  A loaded file
\* is a sequence of sections, the first being DEFAULT; a section is a name
\* and a sequence of key/value pairs in file order.

EmptyFile == << [name |-> IniDefaultSection, keys |-> << >>] >>

\* The index of section name in cfg, 0 when cfg has no such section.
SecIndex(cfg, name) ==
    IF \E i \in 1..Len(cfg) : cfg[i].name = name
    THEN CHOOSE i \in 1..Len(cfg) : cfg[i].name = name
    ELSE 0

\* The index of key k in a section's keys, 0 when absent.
KeyIndex(keys, k) ==
    IF \E i \in 1..Len(keys) : keys[i].k = k
    THEN CHOOSE i \in 1..Len(keys) : keys[i].k = k
    ELSE 0

\* File.NewSection: an existing section of that name is reused.
NewSection(cfg, name) ==
    IF SecIndex(cfg, name) # 0 THEN cfg
    ELSE Append(cfg, [name |-> name, keys |-> << >>])

\* File.Section: the section, created when it does not exist.
Section(cfg, name) == NewSection(cfg, name)

\* NewKeyIn as the library does with shadow keys allowed: the value is added
\* after the existing ones.
NewKeyIn_Shadow(keys, k, val) == Append(keys, [k |-> k, v |-> val])

\* Section.NewKey on the keys of one section: an existing key is
\* overwritten in place, a new key is appended.
NewKeyIn(keys, k, val) ==
    IF KeyIndex(keys, k) # 0
    THEN [keys EXCEPT ![KeyIndex(keys, k)] = [k |-> k, v |-> val]]
    ELSE Append(keys, [k |-> k, v |-> val])

\* Section.NewKey on section name of cfg (the section exists).
NewKey(cfg, name, k, val) ==
    [cfg EXCEPT ![SecIndex(cfg, name)].keys = NewKeyIn(@, k, val)]

\* Key.Value of Section.Key(k): the empty string when the key is absent.
KeyValue(cfg, name, k) ==
    LET keys == cfg[SecIndex(cfg, name)].keys
    IN  IF KeyIndex(keys, k) = 0 THEN "" ELSE keys[KeyIndex(keys, k)].v

\* The parser: lines from index i on are added to cfg, cur being the section
\* that key lines currently go to.
RECURSIVE ParseFrom(_, _, _, _)
ParseFrom(text, i, cfg, cur) ==
    IF i > Len(text) THEN cfg
    ELSE IF text[i].t = "sec"
         THEN ParseFrom(text, i + 1, NewSection(cfg, text[i].n), text[i].n)
         ELSE ParseFrom(text, i + 1, NewKey(cfg, cur, text[i].n, text[i].v), cur)

Parse(text) == ParseFrom(text, 1, EmptyFile, IniDefaultSection)

\* The error of opening a path that has no file.
ErrNotExist(path) == << "open", path, "no such file or directory" >>

\* The error of the parser on a line without a delimiter.
ErrParse == << "key-value delimiter not found" >>

\* The error of writing a file the process may not write.
ErrPermission(path) == << "open", path, "permission denied" >>

\* Load as ini.LooseLoad does it: a path without a file loads as an empty
\* file.
Load_Loose(files, path) ==
    IF files[path] = NoFile
    THEN [err |-> NoErr, cfg |-> EmptyFile]
    ELSE IF \E i \in 1..Len(files[path]) : files[path][i].t = "junk"
         THEN [err |-> ErrParse, cfg |-> EmptyFile]
         ELSE [err |-> NoErr, cfg |-> Parse(files[path])]

\* ini.Load: the parsed file, or the error of opening or parsing it.
Load(files, path) ==
    IF files[path] = NoFile
    THEN [err |-> ErrNotExist(path), cfg |-> EmptyFile]
    ELSE IF \E i \in 1..Len(files[path]) : files[path][i].t = "junk"
         THEN [err |-> ErrParse, cfg |-> EmptyFile]
         ELSE [err |-> NoErr, cfg |-> Parse(files[path])]

\* The lines of one section's keys.
KeyLines(keys) == [i \in 1..Len(keys) |-> KeyLine(keys[i].k, keys[i].v)]

\* File.WriteTo: every section in order, header then keys; the DEFAULT
\* section has no header and is left out when it has no keys.
RECURSIVE WriteFrom(_, _)
WriteFrom(cfg, i) ==
    IF i > Len(cfg) THEN << >>
    ELSE (IF i = 1 THEN << >> ELSE << SecLine(cfg[i].name) >>)
         \o KeyLines(cfg[i].keys) \o WriteFrom(cfg, i + 1)

WriteTo(cfg) == WriteFrom(cfg, 1)

\* File.SaveTo: the new files and the error; a file that may not be written
\* stays as it is.
SaveTo(files, wr, cfg, path) ==
    IF wr[path]
    THEN [err |-> NoErr, files |-> [files EXCEPT ![path] = WriteTo(cfg)]]
    ELSE [err |-> ErrPermission(path), files |-> files]

\* ------------------------------------------------------------------------
\* Package mfile

\* fmt.Errorf("Could not read from credentials file %s: %v", filepath, err)
ErrCouldNotRead(filepath, cause) ==
    << "Could not read from credentials file", filepath, ":" >> \o cause

\* fmt.Errorf("%s section not found in %s", DefaultSectionName, filepath)
ErrSectionNotFound(filepath) ==
    << DefaultSectionName, "section not found in", filepath >>

\* fmt.Errorf("%s key not found in default section of %s", MfaDeviceIDKey, filepath)
ErrKeyNotFound(filepath) ==
    << MfaDeviceIDKey, "key not found in default section of", filepath >>

\* GetMFADeviceIDFromFile with the section name misspelt.
GetMFADeviceIDFromFile_Misspelt(files, filepath) ==
    LET l == Load(files, filepath)
    IN  IF l.err # NoErr
        THEN [id |-> "", err |-> ErrCouldNotRead(filepath, l.err)]
        ELSE IF SecIndex(l.cfg, "defualt") = 0
             THEN [id |-> "", err |-> ErrSectionNotFound(filepath)]
             ELSE IF KeyValue(l.cfg, "defualt", MfaDeviceIDKey) = ""
                  THEN [id |-> "", err |-> ErrKeyNotFound(filepath)]
                  ELSE [id |-> KeyValue(l.cfg, "defualt", MfaDeviceIDKey),
                        err |-> NoErr]

\* GetMFADeviceIDFromFile fetching the section with File.Section, which
\* creates it, and taking a section without keys for a missing one.
GetMFADeviceIDFromFile_Keys(files, filepath) ==
    LET l == Load(files, filepath)
        c == Section(l.cfg, DefaultSectionName)
    IN  IF l.err # NoErr
        THEN [id |-> "", err |-> ErrCouldNotRead(filepath, l.err)]
        ELSE IF Len(c[SecIndex(c, DefaultSectionName)].keys) = 0
             THEN [id |-> "", err |-> << DefaultSectionName,
                                         "section not found or empty in", filepath >>]
             ELSE IF KeyValue(c, DefaultSectionName, MfaDeviceIDKey) = ""
                  THEN [id |-> "", err |-> ErrKeyNotFound(filepath)]
                  ELSE [id |-> KeyValue(c, DefaultSectionName, MfaDeviceIDKey),
                        err |-> NoErr]

\* GetMFADeviceIDFromFile testing the section and the key against nil only,
\* which File.Section and Section.Key never return.
GetMFADeviceIDFromFile_NilChecks(files, filepath) ==
    LET l == Load(files, filepath)
        c == Section(l.cfg, DefaultSectionName)
    IN  IF l.err # NoErr
        THEN [id |-> "", err |-> ErrCouldNotRead(filepath, l.err)]
        ELSE [id |-> KeyValue(c, DefaultSectionName, MfaDeviceIDKey), err |-> NoErr]

\* GetMFADeviceIDFromFile: the device id and the error.
GetMFADeviceIDFromFile(files, filepath) ==
    LET l == Load(files, filepath)
    IN  IF l.err # NoErr
        THEN [id |-> "", err |-> ErrCouldNotRead(filepath, l.err)]
        ELSE IF SecIndex(l.cfg, DefaultSectionName) = 0
             THEN [id |-> "", err |-> ErrSectionNotFound(filepath)]
             ELSE IF KeyValue(l.cfg, DefaultSectionName, MfaDeviceIDKey) = ""
                  THEN [id |-> "", err |-> ErrKeyNotFound(filepath)]
                  ELSE [id |-> KeyValue(l.cfg, DefaultSectionName, MfaDeviceIDKey),
                        err |-> NoErr]

\* SaveSessionCredentialsToFile storing the session token under the key of
\* the secret access key.
SaveSessionCredentialsToFile_TokenKey(files, wr, filepath, accessKeyID, secretAccessKey, sessionToken) ==
    LET l  == Load(files, filepath)
        c0 == Section(l.cfg, SessionSectionName)
        c1 == NewKey(c0, SessionSectionName, AccessKeyIDKey, accessKeyID)
        c2 == NewKey(c1, SessionSectionName, SecretAccessKeyKey, secretAccessKey)
        c3 == NewKey(c2, SessionSectionName, SecretAccessKeyKey, sessionToken)
        s  == SaveTo(files, wr, c3, filepath)
    IN  IF l.err # NoErr
        THEN [panic |-> FALSE, err |-> ErrCouldNotRead(filepath, l.err), files |-> files]
        ELSE IF NilPtr \in {accessKeyID, secretAccessKey, sessionToken}
             THEN [panic |-> TRUE, err |-> NoErr, files |-> files]
             ELSE [panic |-> FALSE, err |-> s.err, files |-> s.files]

\* SaveSessionCredentialsToFile setting the keys in the default section as
\* well as in the session section.
SaveSessionCredentialsToFile_Default(files, wr, filepath, accessKeyID, secretAccessKey, sessionToken) ==
    LET l  == Load(files, filepath)
        c0 == Section(Section(l.cfg, SessionSectionName), DefaultSectionName)
        c1 == NewKey(c0, SessionSectionName, AccessKeyIDKey, accessKeyID)
        c2 == NewKey(c1, SessionSectionName, SecretAccessKeyKey, secretAccessKey)
        c3 == NewKey(c2, SessionSectionName, SessionTokenKey, sessionToken)
        c4 == NewKey(c3, DefaultSectionName, AccessKeyIDKey, accessKeyID)
        s  == SaveTo(files, wr, c4, filepath)
    IN  IF l.err # NoErr
        THEN [panic |-> FALSE, err |-> ErrCouldNotRead(filepath, l.err), files |-> files]
        ELSE IF NilPtr \in {accessKeyID, secretAccessKey, sessionToken}
             THEN [panic |-> TRUE, err |-> NoErr, files |-> files]
             ELSE [panic |-> FALSE, err |-> s.err, files |-> s.files]

\* SaveSessionCredentialsToFile going on with an empty file when the load
\* failed.
SaveSessionCredentialsToFile_Fallback(files, wr, filepath, accessKeyID, secretAccessKey, sessionToken) ==
    LET l  == Load(files, filepath)
        c0 == Section(l.cfg, SessionSectionName)
        c1 == NewKey(c0, SessionSectionName, AccessKeyIDKey, accessKeyID)
        c2 == NewKey(c1, SessionSectionName, SecretAccessKeyKey, secretAccessKey)
        c3 == NewKey(c2, SessionSectionName, SessionTokenKey, sessionToken)
        s  == SaveTo(files, wr, c3, filepath)
    IN  IF NilPtr \in {accessKeyID, secretAccessKey, sessionToken}
        THEN [panic |-> TRUE, err |-> NoErr, files |-> files]
        ELSE [panic |-> FALSE, err |-> s.err, files |-> s.files]

\* SaveSessionCredentialsToFile writing a file built anew, with the session
\* section only, in place of the one it loaded.
SaveSessionCredentialsToFile_Fresh(files, wr, filepath, accessKeyID, secretAccessKey, sessionToken) ==
    LET l  == Load(files, filepath)
        c0 == Section(EmptyFile, SessionSectionName)
        c1 == NewKey(c0, SessionSectionName, AccessKeyIDKey, accessKeyID)
        c2 == NewKey(c1, SessionSectionName, SecretAccessKeyKey, secretAccessKey)
        c3 == NewKey(c2, SessionSectionName, SessionTokenKey, sessionToken)
        s  == SaveTo(files, wr, c3, filepath)
    IN  IF l.err # NoErr
        THEN [panic |-> FALSE, err |-> ErrCouldNotRead(filepath, l.err), files |-> files]
        ELSE IF NilPtr \in {accessKeyID, secretAccessKey, sessionToken}
             THEN [panic |-> TRUE, err |-> NoErr, files |-> files]
             ELSE [panic |-> FALSE, err |-> s.err, files |-> s.files]

\* SaveSessionCredentialsToFile: whether it panicked on a nil pointer, the
\* error it returned and the files it leaves.
SaveSessionCredentialsToFile(files, wr, filepath, accessKeyID, secretAccessKey, sessionToken) ==
    LET l  == Load(files, filepath)
        c0 == Section(l.cfg, SessionSectionName)
        c1 == NewKey(c0, SessionSectionName, AccessKeyIDKey, accessKeyID)
        c2 == NewKey(c1, SessionSectionName, SecretAccessKeyKey, secretAccessKey)
        c3 == NewKey(c2, SessionSectionName, SessionTokenKey, sessionToken)
        s  == SaveTo(files, wr, c3, filepath)
    IN  IF l.err # NoErr
        THEN [panic |-> FALSE, err |-> ErrCouldNotRead(filepath, l.err), files |-> files]
        ELSE IF NilPtr \in {accessKeyID, secretAccessKey, sessionToken}
             THEN [panic |-> TRUE, err |-> NoErr, files |-> files]
             ELSE [panic |-> FALSE, err |-> s.err, files |-> s.files]

\* ------------------------------------------------------------------------
\* Package creds

\* The errors the token service answers with.
StsErrors == { << "InvalidParameter", "minimum field size of 6" >>,
               << "AccessDenied" >> }

\* What a call of getSessionTokenFunc can return: the error, whether the
\* output has a Credentials structure, and its three *string fields.
Responses ==
    { [err |-> e, hasCreds |-> FALSE, creds |-> << >>] : e \in StsErrors }
    \cup { [err |-> NoErr, hasCreds |-> TRUE, creds |-> t] :
              t \in Triples \cup { << "k1", NilPtr, "t1" >> } }
    \cup { [err |-> NoErr, hasCreds |-> FALSE, creds |-> << >>] }
    \cup { [err |-> << "AccessDenied" >>, hasCreds |-> TRUE,
            creds |-> << "k1", "s1", "t1" >>] }

\* The input of GetSessionCredentials with the duration brought into the
\* range AWS accepts.
GetSessionTokenInput_Clamped(mfaSerialNumber, mfaToken, duration) ==
    [DurationSeconds |-> IF duration < 900 THEN 900
                         ELSE IF duration > 129600 THEN 129600 ELSE duration,
     SerialNumber |-> mfaSerialNumber,
     TokenCode |-> mfaToken]

\* The sts.GetSessionTokenInput that GetSessionCredentials builds.
GetSessionTokenInput(mfaSerialNumber, mfaToken, duration) ==
    [DurationSeconds |-> duration, SerialNumber |-> mfaSerialNumber,
     TokenCode |-> mfaToken]

\* GetSessionCredentials wrapping the error of the remote call and keeping
\* the credentials that came with it.
GetSessionCredentials_Wrapped(result) ==
    IF result.err # NoErr
    THEN [panic |-> FALSE, creds |-> result.creds,
          err |-> << "could not get session token:" >> \o result.err]
    ELSE IF ~result.hasCreds
         THEN [panic |-> TRUE, creds |-> << >>, err |-> NoErr]
         ELSE [panic |-> FALSE, creds |-> result.creds, err |-> NoErr]

\* GetSessionCredentials, given what getSessionTokenFunc returned: whether
\* it panicked on a nil Credentials, the credentials and the error.
GetSessionCredentials(result) ==
    IF result.err # NoErr
    THEN [panic |-> FALSE, creds |-> << >>, err |-> result.err]
    ELSE IF ~result.hasCreds
         THEN [panic |-> TRUE, creds |-> << >>, err |-> NoErr]
         ELSE [panic |-> FALSE, creds |-> result.creds, err |-> NoErr]

\* ------------------------------------------------------------------------
\* Package cmd

\* The duration fetchSessionCredentials asks for.
SessionDuration == 3600

\* The argument vectors of the invocations of the model.
ArgVectors == { << >>, << "help" >>, << "123456" >>, << "--save" >>,
                << "123456", "--save" >>, << "--save", "123456" >>,
                << "help", "--save" >>, << "123456", "help" >> }

IsFlag(a) == a = "--save"

\* The positional arguments cobra hands to RunE.
Positional(argv) == SelectSeq(argv, LAMBDA a : ~IsFlag(a))

\* The value of the --save flag after parsing argv; the flag variable keeps
\* its value when the flag is not given.
ParseSave(argv, current) ==
    IF \E i \in 1..Len(argv) : argv[i] = "--save" THEN TRUE ELSE current

\* RunE's test as it was before the help argument: one positional argument
\* is the token code, whatever it says.
WantsHelp_Count(posArgs) == Len(posArgs) # 1

\* RunE's test for showing the help.
WantsHelp(posArgs) == IF Len(posArgs) # 1 THEN TRUE ELSE posArgs[1] = "help"

\* What cmd.Help() writes: the long description and the usage.
UsageText == << << "Usage:" >>, << "mafia token-code [flags]" >> >>

\* displaySessionCredentials with the secret and the token exchanged in the
\* block to paste.
DisplayLines_Swapped(c) ==
    << << "Environment Variables" >>,
       << "export AWS_ACCESS_KEY_ID=", c[1] >>,
       << "export AWS_SECRET_ACCESS_KEY=", c[2] >>,
       << "export AWS_SESSION_TOKEN=", c[3] >>,
       << "history -c # clear shell history immediatly after setting secrets" >>,
       << "To paste into ~/.aws/credentials" >>,
       << "[default-session]" >>,
       << "aws_access_key_id = ", c[1] >>,
       << "aws_secret_access_key = ", c[3] >>,
       << "aws_session_token = ", c[2] >>,
       << "" >> >>

\* displaySessionCredentials with the keys of the block to paste spelt as
\* the environment variables are.
DisplayLines_EnvKeys(c) ==
    << << "Environment Variables" >>,
       << "export AWS_ACCESS_KEY_ID=", c[1] >>,
       << "export AWS_SECRET_ACCESS_KEY=", c[2] >>,
       << "export AWS_SESSION_TOKEN=", c[3] >>,
       << "history -c # clear shell history immediatly after setting secrets" >>,
       << "To paste into ~/.aws/credentials" >>,
       << "[default-session]" >>,
       << "aws_access_key_id = ", c[1] >>,
       << "aws_secret_access_key = ", c[2] >>,
       << "aws_security_token = ", c[3] >>,
       << "" >> >>

\* The lines displaySessionCredentials prints before a line that needs the
\* field at index n of c; the printing panics at the first nil field.
DisplayLines(c) ==
    << << "Environment Variables" >>,
       << "export AWS_ACCESS_KEY_ID=", c[1] >>,
       << "export AWS_SECRET_ACCESS_KEY=", c[2] >>,
       << "export AWS_SESSION_TOKEN=", c[3] >>,
       << "history -c # clear shell history immediatly after setting secrets" >>,
       << "To paste into ~/.aws/credentials" >>,
       << "[default-session]" >>,
       << "aws_access_key_id = ", c[1] >>,
       << "aws_secret_access_key = ", c[2] >>,
       << "aws_session_token = ", c[3] >>,
       << "" >> >>

\* displaySessionCredentials: whether it panicked and what it printed.
displaySessionCredentials(c) ==
    LET all == DisplayLines(c)
        bad == { i \in 1..Len(all) : \E j \in 1..Len(all[i]) : all[i][j] = NilPtr }
        first == CHOOSE i \in bad : \A j \in bad : i <= j
    IN  IF bad = {} THEN [panic |-> FALSE, out |-> all]
        ELSE [panic |-> TRUE, out |-> SubSeq(all, 1, first - 1)]

\* The comfort signal RunE prints after saving.
SavedMessage == << "Session credentials saved to file" >>

\* ------------------------------------------------------------------------
\* State

VARIABLES
    fs,                          \* path -> the lines of the file, or NoFile
    writable,                    \* path -> whether the process may write it
    defaultCredentialsFilePath,  \* mfile: the path of the credentials file
    last,                        \* the latest direct call of an mfile function
    getSessionTokenFunc,         \* creds: the function behind the STS call
    unitTesting,                 \* cmd: set when running unit tests
    executeError,                \* cmd: the error obtained by Execute
    saveCredentials,             \* cmd: the value of the --save flag
    pc,                          \* where the current invocation is
    cmdArgs,                     \* the arguments of the current invocation
    toBuffer,                    \* whether cobra's output goes to a buffer
    outBuf,                      \* cobra's output: usage and help
    stdout,                      \* what the invocation wrote with fmt.Print*
    mfaDeviceID,                 \* fetchSessionCredentials: the looked up id
    credentials,                 \* RunE: the credentials obtained
    runErr,                      \* RunE: the error it returns
    events,                      \* the calls the invocation made, in order
    stsCalls,                    \* the calls of getSessionTokenFunc it made
    startFs,                     \* the files when the invocation started
    exitStatus,                  \* the exit status, -1 while running
    stderr,                      \* what the process wrote to standard error
    credsCall,                   \* the latest direct call of GetSessionCredentials
    requested,                   \* the functions the last two Set/Reset calls asked for
    earlierSave,                 \* whether an earlier invocation of this process had --save
    procs,                       \* two processes saving at once: where each is, what it loaded
    checked                      \* the latest call of checkForExpectedSTSCallFailure

fileVars == << fs, writable, defaultCredentialsFilePath, last >>

cmdVars == << getSessionTokenFunc, unitTesting, executeError, saveCredentials,
              pc, cmdArgs, toBuffer, outBuf, stdout, mfaDeviceID, credentials,
              runErr, events, stsCalls, startFs, exitStatus, stderr,
              credsCall, requested,
                    earlierSave, procs, checked >>

vars == << fs, writable, defaultCredentialsFilePath, last,
           getSessionTokenFunc, unitTesting, executeError, saveCredentials,
           pc, cmdArgs, toBuffer, outBuf, stdout, mfaDeviceID, credentials,
           runErr, events, stsCalls, startFs, exitStatus, stderr,
           credsCall, requested,
                    earlierSave, procs, checked >>

\* A call an invocation made and the error it returned.
Event(call, err) == [call |-> call, err |-> err]

\* No credentials (a nil *SessionCredentials).
NoCreds == << >>

\* No direct call yet.
NoCall == [op |-> "none", path |-> "", cred |-> NoCreds, pre |-> << >>,
           id |-> "", err |-> NoErr, panic |-> FALSE]

\* No direct call of GetSessionCredentials yet.
NoCredsCall == [invoked |-> << >>, after |-> << >>, args |-> << >>, input |-> << >>,
                result |-> << >>, creds |-> NoCreds, err |-> NoErr,
                panic |-> FALSE]

\* What the Go runtime writes to standard error when a nil pointer is
\* dereferenced; the process then exits with status 2.
PanicMessage ==
    << "panic: runtime error: invalid memory address or nil pointer dereference" >>

\* The files and package state a process starts with: a credentials file of
\* any content, or none, under the user's home; nothing at MissingPath.
InitFiles ==
    /\ \E t \in Texts(MaxLines) \cup {NoFile} :
          fs = [p \in Paths |-> IF p = HomePath THEN t ELSE NoFile]
    /\ writable \in [Paths -> BOOLEAN]
    /\ writable[MissingPath]
    /\ defaultCredentialsFilePath = HomePath
    /\ last = NoCall

\* The package state of cmd and creds after their init functions.
InitCmd ==
    /\ getSessionTokenFunc = "aws"
    /\ unitTesting = FALSE
    /\ executeError = NoErr
    /\ saveCredentials = FALSE
    /\ pc = "idle"
    /\ cmdArgs = << >>
    /\ toBuffer = FALSE
    /\ outBuf = << >>
    /\ stdout = << >>
    /\ mfaDeviceID = ""
    /\ credentials = NoCreds
    /\ runErr = NoErr
    /\ events = << >>
    /\ stsCalls = << >>
    /\ startFs = fs
    /\ exitStatus = -1
    /\ stderr = << >>
    /\ credsCall = NoCredsCall
    /\ requested = << "aws", "aws" >>
    /\ earlierSave = FALSE

\* No processes saving at once.
NoProcs == << >>

\* No call of checkForExpectedSTSCallFailure yet.
NoCheck == [called |-> FALSE, err |-> NoErr, panic |-> FALSE, result |-> FALSE]

Init == InitFiles /\ InitCmd /\ procs = NoProcs /\ checked = NoCheck

\* ------------------------------------------------------------------------
\* Direct calls of package mfile

\* A lookup that opens the file for writing too, and so creates an empty
\* file at a path that has none.
CallGetMFADeviceIDFromFile_Creates(filepath) ==
    /\ pc = "idle"
    /\ LET r == GetMFADeviceIDFromFile(fs, filepath)
       IN  last' = [op |-> "lookup", path |-> filepath, cred |-> NoCreds,
                    pre |-> fs, id |-> r.id, err |-> r.err, panic |-> FALSE]
    /\ fs' = IF fs[filepath] = NoFile THEN [fs EXCEPT ![filepath] = << >>] ELSE fs
    /\ UNCHANGED << writable, defaultCredentialsFilePath >>
    /\ UNCHANGED cmdVars

\* A caller calls GetMFADeviceIDFromFile(filepath).
CallGetMFADeviceIDFromFile(filepath) ==
    /\ pc = "idle"
    /\ LET r == GetMFADeviceIDFromFile(fs, filepath)
       IN  last' = [op |-> "lookup", path |-> filepath, cred |-> NoCreds,
                    pre |-> fs, id |-> r.id, err |-> r.err, panic |-> FALSE]
    /\ UNCHANGED << fs, writable, defaultCredentialsFilePath >>
    /\ UNCHANGED cmdVars

\* A caller calls GetMFADeviceID().
CallGetMFADeviceID == CallGetMFADeviceIDFromFile(defaultCredentialsFilePath)

\* A caller calls SaveSessionCredentialsToFile(filepath, &t[1], &t[2], &t[3]).
CallSaveSessionCredentialsToFile(filepath, t) ==
    /\ pc = "idle"
    /\ LET r == SaveSessionCredentialsToFile(fs, writable, filepath, t[1], t[2], t[3])
       IN  /\ fs' = r.files
           /\ last' = [op |-> "save", path |-> filepath, cred |-> t,
                        pre |-> fs, id |-> "", err |-> r.err, panic |-> r.panic]
    /\ UNCHANGED << writable, defaultCredentialsFilePath >>
    /\ UNCHANGED cmdVars

\* A caller calls SaveSessionCredentials(&t[1], &t[2], &t[3]).
CallSaveSessionCredentials(t) ==
    CallSaveSessionCredentialsToFile(defaultCredentialsFilePath, t)

\* OverrideDefaultCredentialsFilepath(filepath)
OverrideDefaultCredentialsFilepath(filepath) ==
    /\ pc = "idle"
    /\ defaultCredentialsFilePath' = filepath
    /\ UNCHANGED << fs, writable, last >>
    /\ UNCHANGED cmdVars

\* mfile.ResetPackageDefaults()
MfileResetPackageDefaults ==
    /\ pc = "idle"
    /\ defaultCredentialsFilePath' = HomePath
    /\ UNCHANGED << fs, writable, last >>
    /\ UNCHANGED cmdVars

NextFile ==
    \/ \E p \in Paths : CallGetMFADeviceIDFromFile(p)
    \/ CallGetMFADeviceID
    \/ \E p \in Paths, t \in Triples : CallSaveSessionCredentialsToFile(p, t)
    \/ \E t \in Triples : CallSaveSessionCredentials(t)
    \/ \E p \in Paths : OverrideDefaultCredentialsFilepath(p)
    \/ MfileResetPackageDefaults

\* ------------------------------------------------------------------------
\* Invocations of the command

\* main() of a new process started with arguments argv: every package is in
\* its load time state.
MainStart(argv) ==
    /\ pc \in {"idle", "done", "exited", "panicked"}
    /\ getSessionTokenFunc' = "aws"
    /\ unitTesting' = FALSE
    /\ executeError' = NoErr
    /\ saveCredentials' = FALSE
    /\ pc' = "ready"
    /\ cmdArgs' = argv
    /\ toBuffer' = FALSE
    /\ outBuf' = << >>
    /\ stdout' = << >>
    /\ mfaDeviceID' = ""
    /\ credentials' = NoCreds
    /\ runErr' = NoErr
    /\ events' = << >>
    /\ stsCalls' = << >>
    /\ startFs' = fs
    /\ exitStatus' = -1
    /\ stderr' = << >>
    /\ credsCall' = NoCredsCall
    /\ requested' = << "aws", "aws" >>
    /\ earlierSave' = FALSE
    /\ UNCHANGED << procs, checked >>
    /\ defaultCredentialsFilePath' = HomePath
    /\ last' = NoCall
    /\ UNCHANGED << fs, writable >>

\* prepForExecute(argv) without defining the flags anew: saveCredentials
\* keeps the value the earlier invocation left.
PrepForExecute_KeepFlag(argv) ==
    /\ IF pc = "done" THEN unitTesting ELSE pc = "idle"
    /\ unitTesting' = TRUE
    /\ UNCHANGED saveCredentials
    /\ cmdArgs' = argv
    /\ toBuffer' = TRUE
    /\ outBuf' = << >>
    /\ pc' = "ready"
    /\ stdout' = << >>
    /\ mfaDeviceID' = ""
    /\ credentials' = NoCreds
    /\ runErr' = NoErr
    /\ events' = << >>
    /\ stsCalls' = << >>
    /\ startFs' = fs
    /\ exitStatus' = -1
    /\ stderr' = << >>
    /\ credsCall' = NoCredsCall
    /\ UNCHANGED requested
    /\ earlierSave' = ( earlierSave \/ \E i \in 1..Len(cmdArgs) : cmdArgs[i] = "--save" )
    /\ UNCHANGED << procs, checked >>
    /\ last' = NoCall
    /\ UNCHANGED << getSessionTokenFunc, executeError, fs, writable,
                    defaultCredentialsFilePath >>

\* prepForExecute(argv) of a test: resetCommand, SetArgs and SetOutput.  The
\* flags are defined anew, which sets saveCredentials to the flag's default.
PrepForExecute(argv) ==
    /\ IF pc = "done" THEN unitTesting ELSE pc = "idle"
    /\ unitTesting' = TRUE
    /\ saveCredentials' = FALSE
    /\ cmdArgs' = argv
    /\ toBuffer' = TRUE
    /\ outBuf' = << >>
    /\ pc' = "ready"
    /\ stdout' = << >>
    /\ mfaDeviceID' = ""
    /\ credentials' = NoCreds
    /\ runErr' = NoErr
    /\ events' = << >>
    /\ stsCalls' = << >>
    /\ startFs' = fs
    /\ exitStatus' = -1
    /\ stderr' = << >>
    /\ credsCall' = NoCredsCall
    /\ UNCHANGED requested
    /\ earlierSave' = ( earlierSave \/ \E i \in 1..Len(cmdArgs) : cmdArgs[i] = "--save" )
    /\ UNCHANGED << procs, checked >>
    /\ last' = NoCall
    /\ UNCHANGED << getSessionTokenFunc, executeError, fs, writable,
                    defaultCredentialsFilePath >>

\* rootCmd.Execute() parses the flags before it calls RunE.
ExecuteParse ==
    /\ pc = "ready"
    /\ saveCredentials' = ParseSave(cmdArgs, saveCredentials)
    /\ pc' = "runE"
    /\ UNCHANGED fileVars
    /\ UNCHANGED << getSessionTokenFunc, unitTesting, executeError, cmdArgs,
                    toBuffer, outBuf, stdout, mfaDeviceID, credentials, runErr,
                    events, stsCalls, startFs, exitStatus >>
    /\ UNCHANGED << stderr, credsCall, requested,
                    earlierSave, procs, checked >>

\* RunE of the earlier revision: without exactly one argument it returns
\* the error "An MFA token must be provided" and shows no help.
RunHelp_MissingToken ==
    /\ pc = "runE"
    /\ WantsHelp(Positional(cmdArgs))
    /\ IF Len(Positional(cmdArgs)) # 1
       THEN /\ runErr' = << "An MFA token must be provided" >>
            /\ UNCHANGED << outBuf, stdout >>
       ELSE /\ runErr' = NoErr
            /\ IF toBuffer
               THEN outBuf' = outBuf \o UsageText /\ UNCHANGED stdout
               ELSE stdout' = stdout \o UsageText /\ UNCHANGED outBuf
    /\ events' = Append(events, Event("help", NoErr))
    /\ pc' = "returned"
    /\ UNCHANGED fileVars
    /\ UNCHANGED << getSessionTokenFunc, unitTesting, executeError,
                    saveCredentials, cmdArgs, toBuffer, mfaDeviceID,
                    credentials, stsCalls, startFs, exitStatus >>
    /\ UNCHANGED << stderr, credsCall, requested,
                    earlierSave, procs, checked >>

\* RunE shows the help and returns what cmd.Help() returns.
RunHelp ==
    /\ pc = "runE"
    /\ WantsHelp(Positional(cmdArgs))
    /\ IF toBuffer
       THEN outBuf' = outBuf \o UsageText /\ UNCHANGED stdout
       ELSE stdout' = stdout \o UsageText /\ UNCHANGED outBuf
    /\ runErr' = NoErr
    /\ events' = Append(events, Event("help", NoErr))
    /\ pc' = "returned"
    /\ UNCHANGED fileVars
    /\ UNCHANGED << getSessionTokenFunc, unitTesting, executeError,
                    saveCredentials, cmdArgs, toBuffer, mfaDeviceID,
                    credentials, stsCalls, startFs, exitStatus >>
    /\ UNCHANGED << stderr, credsCall, requested,
                    earlierSave, procs, checked >>

\* fetchSessionCredentials dropping the error of mfile.GetMFADeviceID().
RunLookup_DropError ==
    /\ pc = "runE"
    /\ ~WantsHelp(Positional(cmdArgs))
    /\ LET r == GetMFADeviceIDFromFile(fs, defaultCredentialsFilePath)
       IN  /\ last' = [op |-> "lookup", path |-> defaultCredentialsFilePath,
                        cred |-> NoCreds, pre |-> fs, id |-> r.id, err |-> r.err,
                        panic |-> FALSE]
           /\ mfaDeviceID' = r.id
           /\ pc' = "exchange"
           /\ events' = Append(events, Event("lookup", r.err))
    /\ UNCHANGED << fs, writable, defaultCredentialsFilePath >>
    /\ UNCHANGED << getSessionTokenFunc, unitTesting, executeError,
                    saveCredentials, cmdArgs, toBuffer, outBuf, stdout,
                    credentials, runErr, stsCalls, startFs, exitStatus >>
    /\ UNCHANGED << stderr, credsCall, requested,
                    earlierSave, procs, checked >>

\* fetchSessionCredentials, first half: mfile.GetMFADeviceID().
RunLookup ==
    /\ pc = "runE"
    /\ ~WantsHelp(Positional(cmdArgs))
    /\ LET r == GetMFADeviceIDFromFile(fs, defaultCredentialsFilePath)
       IN  /\ last' = [op |-> "lookup", path |-> defaultCredentialsFilePath,
                        cred |-> NoCreds, pre |-> fs, id |-> r.id, err |-> r.err, panic |-> FALSE]
           /\ IF r.err # NoErr
              THEN runErr' = r.err /\ pc' = "returned" /\ UNCHANGED mfaDeviceID
              ELSE mfaDeviceID' = r.id /\ pc' = "exchange" /\ UNCHANGED runErr
    /\ events' = Append(events,
           Event("lookup", GetMFADeviceIDFromFile(fs, defaultCredentialsFilePath).err))
    /\ UNCHANGED << fs, writable, defaultCredentialsFilePath >>
    /\ UNCHANGED << getSessionTokenFunc, unitTesting, executeError,
                    saveCredentials, cmdArgs, toBuffer, outBuf, stdout,
                    credentials, stsCalls, startFs, exitStatus >>
    /\ UNCHANGED << stderr, credsCall, requested,
                    earlierSave, procs, checked >>

\* fetchSessionCredentials trying the remote call again after an error.
RunExchange_Retry ==
    /\ pc = "exchange"
    /\ \E result \in Responses :
          LET r == GetSessionCredentials(result)
          IN  /\ stsCalls' = Append(stsCalls,
                     [fn |-> getSessionTokenFunc,
                      input |-> GetSessionTokenInput(mfaDeviceID,
                                    Positional(cmdArgs)[1], SessionDuration),
                      result |-> result])
              /\ events' = Append(events, Event("sts", result.err))
              /\ IF r.panic
                 THEN pc' = "panicked" /\ exitStatus' = 2
                      /\ stderr' = Append(stderr, PanicMessage)
                      /\ UNCHANGED << runErr, credentials >>
                 ELSE IF r.err # NoErr
                      THEN /\ runErr' = r.err
                           /\ pc' = IF stsCalls = << >> THEN "exchange" ELSE "returned"
                           /\ UNCHANGED << credentials, exitStatus, stderr >>
                      ELSE credentials' = r.creds /\ pc' = "output"
                           /\ runErr' = NoErr
                           /\ UNCHANGED << exitStatus, stderr >>
    /\ UNCHANGED fileVars
    /\ UNCHANGED << getSessionTokenFunc, unitTesting, executeError,
                    saveCredentials, cmdArgs, toBuffer, outBuf, stdout,
                    mfaDeviceID, startFs, credsCall, requested,
                    earlierSave, procs, checked >>

\* RunE going on to the output with the credentials that came beside an
\* error of the remote call.
RunExchange_IgnoreError ==
    /\ pc = "exchange"
    /\ \E result \in Responses :
          LET r == GetSessionCredentials(result)
          IN  /\ stsCalls' = Append(stsCalls,
                     [fn |-> getSessionTokenFunc,
                      input |-> GetSessionTokenInput(mfaDeviceID,
                                    Positional(cmdArgs)[1], SessionDuration),
                      result |-> result])
              /\ events' = Append(events, Event("sts", result.err))
              /\ IF r.panic
                 THEN pc' = "panicked" /\ exitStatus' = 2
                      /\ stderr' = Append(stderr, PanicMessage)
                      /\ UNCHANGED << runErr, credentials >>
                 ELSE IF r.err # NoErr /\ ~result.hasCreds
                      THEN runErr' = r.err /\ pc' = "returned"
                           /\ credentials' = r.creds
                           /\ UNCHANGED << exitStatus, stderr >>
                      ELSE credentials' = result.creds /\ pc' = "output"
                           /\ UNCHANGED << runErr, exitStatus, stderr >>
    /\ UNCHANGED fileVars
    /\ UNCHANGED << getSessionTokenFunc, unitTesting, executeError,
                    saveCredentials, cmdArgs, toBuffer, outBuf, stdout,
                    mfaDeviceID, startFs, credsCall, requested,
                    earlierSave, procs, checked >>

\* fetchSessionCredentials, second half: creds.GetSessionCredentials with
\* the device id, the token code and the duration; the function behind
\* getSessionTokenFunc answers with any of Responses.
RunExchange ==
    /\ pc = "exchange"
    /\ \E result \in Responses :
          LET r == GetSessionCredentials(result)
          IN  /\ stsCalls' = Append(stsCalls,
                     [fn |-> getSessionTokenFunc,
                      input |-> GetSessionTokenInput(mfaDeviceID,
                                    Positional(cmdArgs)[1], SessionDuration),
                      result |-> result])
              /\ events' = Append(events, Event("sts", result.err))
              /\ IF r.panic
                 THEN pc' = "panicked" /\ exitStatus' = 2
                      /\ stderr' = Append(stderr, PanicMessage)
                      /\ UNCHANGED << runErr, credentials >>
                 ELSE IF r.err # NoErr
                      THEN runErr' = r.err /\ pc' = "returned"
                           /\ credentials' = r.creds
                           /\ UNCHANGED << exitStatus, stderr >>
                      ELSE credentials' = r.creds /\ pc' = "output"
                           /\ UNCHANGED << runErr, exitStatus, stderr >>
    /\ UNCHANGED fileVars
    /\ UNCHANGED << getSessionTokenFunc, unitTesting, executeError,
                    saveCredentials, cmdArgs, toBuffer, outBuf, stdout,
                    mfaDeviceID, startFs, credsCall, requested,
                    earlierSave, procs, checked >>

\* RunE falling back to the display when the save returned an error.
RunSave_FallbackDisplay ==
    /\ pc = "output"
    /\ saveCredentials
    /\ LET r == SaveSessionCredentialsToFile(fs, writable, defaultCredentialsFilePath,
                     credentials[1], credentials[2], credentials[3])
       IN  /\ last' = [op |-> "save", path |-> defaultCredentialsFilePath,
                        cred |-> credentials, pre |-> fs, id |-> "", err |-> r.err, panic |-> r.panic]
           /\ fs' = r.files
           /\ events' = Append(events, Event("save", r.err))
           /\ IF r.panic
              THEN pc' = "panicked" /\ exitStatus' = 2
                   /\ stderr' = Append(stderr, PanicMessage)
                   /\ UNCHANGED << runErr, stdout >>
              ELSE runErr' = r.err /\ pc' = "returned"
                   /\ stdout' = ( IF r.err # NoErr
                                  THEN stdout \o displaySessionCredentials(credentials).out
                                  ELSE Append(stdout, SavedMessage) )
                   /\ UNCHANGED << exitStatus, stderr >>
    /\ UNCHANGED << writable, defaultCredentialsFilePath >>
    /\ UNCHANGED << getSessionTokenFunc, unitTesting, executeError,
                    saveCredentials, cmdArgs, toBuffer, outBuf, mfaDeviceID,
                    credentials, stsCalls, startFs, credsCall, requested,
                    earlierSave, procs, checked >>

\* RunE with --save: saveSessionCredentials, then the comfort signal.
RunSave ==
    /\ pc = "output"
    /\ saveCredentials
    /\ LET r == SaveSessionCredentialsToFile(fs, writable, defaultCredentialsFilePath,
                     credentials[1], credentials[2], credentials[3])
       IN  /\ last' = [op |-> "save", path |-> defaultCredentialsFilePath,
                        cred |-> credentials, pre |-> fs, id |-> "", err |-> r.err, panic |-> r.panic]
           /\ fs' = r.files
           /\ events' = Append(events, Event("save", r.err))
           /\ IF r.panic
              THEN pc' = "panicked" /\ exitStatus' = 2
                   /\ stderr' = Append(stderr, PanicMessage)
                   /\ UNCHANGED << runErr, stdout >>
              ELSE runErr' = r.err /\ pc' = "returned"
                   /\ stdout' = Append(stdout, SavedMessage)
                   /\ UNCHANGED << exitStatus, stderr >>
    /\ UNCHANGED << writable, defaultCredentialsFilePath >>
    /\ UNCHANGED << getSessionTokenFunc, unitTesting, executeError,
                    saveCredentials, cmdArgs, toBuffer, outBuf, mfaDeviceID,
                    credentials, stsCalls, startFs, credsCall, requested,
                    earlierSave, procs, checked >>

\* RunE displaying the credentials whether or not --save was given.
RunDisplay_Always ==
    /\ pc = "output"
    /\ LET r == displaySessionCredentials(credentials)
       IN  /\ stdout' = stdout \o r.out
           /\ IF r.panic
              THEN pc' = "panicked" /\ exitStatus' = 2
                   /\ stderr' = Append(stderr, PanicMessage)
              ELSE pc' = "returned" /\ UNCHANGED << exitStatus, stderr >>
    /\ events' = Append(events, Event("display", NoErr))
    /\ UNCHANGED fileVars
    /\ UNCHANGED << getSessionTokenFunc, unitTesting, executeError,
                    saveCredentials, cmdArgs, toBuffer, outBuf, mfaDeviceID,
                    credentials, runErr, stsCalls, startFs, credsCall, requested,
                    earlierSave, procs, checked >>

\* RunE without --save: displaySessionCredentials.
RunDisplay ==
    /\ pc = "output"
    /\ ~saveCredentials
    /\ LET r == displaySessionCredentials(credentials)
       IN  /\ stdout' = stdout \o r.out
           /\ IF r.panic
              THEN pc' = "panicked" /\ exitStatus' = 2
                   /\ stderr' = Append(stderr, PanicMessage)
              ELSE pc' = "returned" /\ UNCHANGED << exitStatus, stderr >>
    /\ events' = Append(events, Event("display", NoErr))
    /\ UNCHANGED fileVars
    /\ UNCHANGED << getSessionTokenFunc, unitTesting, executeError,
                    saveCredentials, cmdArgs, toBuffer, outBuf, mfaDeviceID,
                    credentials, runErr, stsCalls, startFs, credsCall, requested,
                    earlierSave, procs, checked >>

\* Execute() without SilenceErrors: cobra prints the error too, with the
\* prefix "Error:", where it writes errors.
ExecuteReturn_CobraPrints ==
    /\ pc = "returned"
    /\ executeError' = runErr
    /\ IF runErr # NoErr
       THEN /\ stdout' = Append(stdout, runErr)
            /\ IF toBuffer
               THEN outBuf' = Append(outBuf, << "Error:" >> \o runErr)
                    /\ UNCHANGED stderr
               ELSE stderr' = Append(stderr, << "Error:" >> \o runErr)
                    /\ UNCHANGED outBuf
            /\ IF unitTesting
               THEN pc' = "done" /\ UNCHANGED exitStatus
               ELSE pc' = "exited" /\ exitStatus' = 1
       ELSE /\ pc' = "done"
            /\ exitStatus' = IF unitTesting THEN exitStatus ELSE 0
            /\ UNCHANGED << stdout, outBuf, stderr >>
    /\ UNCHANGED fileVars
    /\ UNCHANGED << getSessionTokenFunc, unitTesting, saveCredentials, cmdArgs,
                    toBuffer, mfaDeviceID, credentials, runErr, events,
                    stsCalls, startFs, credsCall, requested,
                    earlierSave, procs, checked >>

\* Execute() without SilenceUsage, as in the earlier revision: cobra shows
\* the usage when RunE returns an error.
ExecuteReturn_UsageOnError ==
    /\ pc = "returned"
    /\ executeError' = runErr
    /\ IF runErr # NoErr
       THEN /\ stdout' = Append(stdout, runErr)
            /\ IF toBuffer
               THEN outBuf' = outBuf \o UsageText /\ UNCHANGED stderr
               ELSE stderr' = stderr \o UsageText /\ UNCHANGED outBuf
            /\ IF unitTesting
               THEN pc' = "done" /\ UNCHANGED exitStatus
               ELSE pc' = "exited" /\ exitStatus' = 1
       ELSE /\ pc' = "done"
            /\ exitStatus' = IF unitTesting THEN exitStatus ELSE 0
            /\ UNCHANGED << stdout, outBuf, stderr >>
    /\ UNCHANGED fileVars
    /\ UNCHANGED << getSessionTokenFunc, unitTesting, saveCredentials, cmdArgs,
                    toBuffer, mfaDeviceID, credentials, runErr, events,
                    stsCalls, startFs, credsCall, requested,
                    earlierSave, procs, checked >>

\* Execute() after rootCmd.Execute() returned: the error is kept in
\* executeError and printed with fmt.Println; outside unit tests the process
\* exits with status 1.  Without an error main returns.
ExecuteReturn ==
    /\ pc = "returned"
    /\ executeError' = runErr
    /\ IF runErr # NoErr
       THEN /\ stdout' = Append(stdout, runErr)
            /\ IF unitTesting
               THEN pc' = "done" /\ UNCHANGED exitStatus
               ELSE pc' = "exited" /\ exitStatus' = 1
       ELSE /\ pc' = "done"
            /\ exitStatus' = IF unitTesting THEN exitStatus ELSE 0
            /\ UNCHANGED stdout
    /\ UNCHANGED fileVars
    /\ UNCHANGED << getSessionTokenFunc, unitTesting, saveCredentials, cmdArgs,
                    toBuffer, outBuf, mfaDeviceID, credentials, runErr, events,
                    stsCalls, startFs >>
    /\ UNCHANGED << stderr, credsCall, requested,
                    earlierSave, procs, checked >>

NextCmd ==
    \/ \E argv \in ArgVectors : MainStart(argv)
    \/ \E argv \in ArgVectors : PrepForExecute(argv)
    \/ ExecuteParse
    \/ RunHelp
    \/ RunLookup
    \/ RunExchange
    \/ RunSave
    \/ RunDisplay
    \/ ExecuteReturn

Next == NextFile \/ NextCmd

\* The whole program: direct calls of mfile and invocations of the command.
Spec == Init /\ [][Next]_vars

\* ------------------------------------------------------------------------
\* Direct calls of package creds

\* The arguments a caller may pass to GetSessionCredentials: device serial
\* numbers and token codes of any length and format, durations inside and
\* outside the range AWS accepts.
CredsSerials == { "mfa-device-id", "" }
CredsTokens == { "123456", "12", "" }
CredsDurations == { 0, 900, 129600, 129601 }

\* The functions a test may put behind the STS call.
MockFuncs == { "mock1", "mock2" }

\* A caller calls GetSessionCredentials(mfaSerialNumber, mfaToken, duration);
\* the function behind getSessionTokenFunc answers with any of Responses.
CallGetSessionCredentials(mfaSerialNumber, mfaToken, duration) ==
    /\ pc = "idle"
    /\ \E result \in Responses :
          LET r == GetSessionCredentials(result)
          IN  /\ credsCall' =
                     [invoked |-> << getSessionTokenFunc >>,
                      after |-> requested,
                      args |-> << mfaSerialNumber, mfaToken, duration >>,
                      input |-> GetSessionTokenInput(mfaSerialNumber, mfaToken,
                                                     duration),
                      result |-> result, creds |-> r.creds, err |-> r.err,
                      panic |-> r.panic]
              /\ IF r.panic
                 THEN pc' = "panicked" /\ exitStatus' = 2
                      /\ stderr' = Append(stderr, PanicMessage)
                 ELSE UNCHANGED << pc, exitStatus, stderr >>
    /\ UNCHANGED fileVars
    /\ UNCHANGED << getSessionTokenFunc, unitTesting, executeError,
                    saveCredentials, cmdArgs, toBuffer, outBuf, stdout,
                    mfaDeviceID, credentials, runErr, events, stsCalls,
                    startFs, requested,
                    earlierSave, procs, checked >>

\* SetGetSessionTokenFunc(f)
SetGetSessionTokenFunc(f) ==
    /\ pc = "idle"
    /\ getSessionTokenFunc' = f
    /\ requested' = << requested[2], f >>
    /\ UNCHANGED fileVars
    /\ UNCHANGED << unitTesting, executeError, saveCredentials, pc, cmdArgs,
                    toBuffer, outBuf, stdout, mfaDeviceID, credentials, runErr,
                    events, stsCalls, startFs, exitStatus, stderr, credsCall,
                    earlierSave, procs, checked >>

\* ResetPackageDefaults leaving the function behind the STS call as it is.
CredsResetPackageDefaults_Keep ==
    /\ pc = "idle"
    /\ UNCHANGED getSessionTokenFunc
    /\ requested' = << requested[2], "aws" >>
    /\ UNCHANGED fileVars
    /\ UNCHANGED << unitTesting, executeError, saveCredentials, pc, cmdArgs,
                    toBuffer, outBuf, stdout, mfaDeviceID, credentials, runErr,
                    events, stsCalls, startFs, exitStatus, stderr, credsCall,
                    earlierSave, procs, checked >>

\* creds.ResetPackageDefaults()
CredsResetPackageDefaults ==
    /\ pc = "idle"
    /\ getSessionTokenFunc' = "aws"
    /\ requested' = << requested[2], "aws" >>
    /\ UNCHANGED fileVars
    /\ UNCHANGED << unitTesting, executeError, saveCredentials, pc, cmdArgs,
                    toBuffer, outBuf, stdout, mfaDeviceID, credentials, runErr,
                    events, stsCalls, startFs, exitStatus, stderr, credsCall,
                    earlierSave, procs, checked >>

\* The creds package does not touch the credentials file.
InitCreds ==
    /\ fs = [p \in Paths |-> NoFile]
    /\ writable = [p \in Paths |-> TRUE]
    /\ defaultCredentialsFilePath = HomePath
    /\ last = NoCall
    /\ InitCmd
    /\ procs = NoProcs
    /\ checked = NoCheck

NextCreds ==
    \/ \E n \in CredsSerials, t \in CredsTokens, d \in CredsDurations :
          CallGetSessionCredentials(n, t, d)
    \/ \E f \in MockFuncs : SetGetSessionTokenFunc(f)
    \/ CredsResetPackageDefaults

\* The callers of package creds: GetSessionCredentials with any arguments,
\* and the functions that set and reset the function behind the STS call.
SpecCreds == InitCreds /\ [][NextCreds]_vars

\* ------------------------------------------------------------------------
\* What a credentials file says, read off its lines without the library

Max(S) == CHOOSE x \in S : \A y \in S : y <= x

\* The file at path exists and every line of it is a header or a key line.
Loadable(files, path) ==
    /\ files[path] # NoFile
    /\ \A i \in 1..Len(files[path]) : files[path][i].t \in {"sec", "key"}

\* The text has a header line [name].
HasHeader(text, name) ==
    \E i \in 1..Len(text) : text[i].t = "sec" /\ text[i].n = name

\* The section line i of the text is under: the nearest header above it.
Owner(text, i) ==
    LET hs == { j \in 1..(i - 1) : text[j].t = "sec" }
    IN  IF hs = {} THEN IniDefaultSection ELSE text[Max(hs)].n

\* The lines that give key k in section name.
Occurrences(text, name, k) ==
    { i \in 1..Len(text) :
        text[i].t = "key" /\ text[i].n = k /\ Owner(text, i) = name }

\* Section name of the text gives key k.
HasKey(text, name, k) == Occurrences(text, name, k) # {}

\* The value the text gives key k in section name: that of its last line.
ValueOf(text, name, k) == text[Max(Occurrences(text, name, k))].v

\* The latest mfile call was a lookup of the device id.
LookedUp == last.op = "lookup"

\* The text the latest mfile call found at its path.
LastText == last.pre[last.path]

\* ------------------------------------------------------------------------
\* Properties of the device id lookup

\* C1: a lookup on a loadable file whose default section gives mfa_device_id
\* a non-empty value v returns exactly v and the nil error.
C1_LookupReturnsDeviceID ==
    ( /\ LookedUp
      /\ Loadable(last.pre, last.path)
      /\ HasHeader(LastText, "default")
      /\ HasKey(LastText, "default", "mfa_device_id")
      /\ ValueOf(LastText, "default", "mfa_device_id") # "" )
    => ( /\ last.id = ValueOf(LastText, "default", "mfa_device_id")
         /\ last.err = NoErr )

\* A lookup found the device id that the default section of its file gives.
C1_Witness ==
    /\ LookedUp
    /\ Loadable(last.pre, last.path)
    /\ HasHeader(LastText, "default")
    /\ HasKey(LastText, "default", "mfa_device_id")
    /\ ValueOf(LastText, "default", "mfa_device_id") # ""
    /\ last.id \in {"d1", "d2"}

\* C2: a lookup on a loadable file without a [default] header returns the
\* empty id and the error "default section not found in <path>", never the
\* key-not-found error and never success.
C2_MissingSectionError ==
    ( /\ LookedUp
      /\ Loadable(last.pre, last.path)
      /\ ~HasHeader(LastText, "default") )
    => ( /\ last.id = ""
         /\ last.err = << "default", "section not found in", last.path >> )

\* A lookup on a loadable file that has other sections but no default one.
C2_Witness ==
    /\ LookedUp
    /\ Loadable(last.pre, last.path)
    /\ ~HasHeader(LastText, "default")
    /\ HasHeader(LastText, "other")
    /\ HasKey(LastText, "other", "mfa_device_id")
    /\ last.err # NoErr

\* C3: a lookup on a loadable file whose default section has no
\* mfa_device_id key, or has it with an empty value, returns the empty id and
\* the error "mfa_device_id key not found in default section of <path>".
C3_MissingKeyError ==
    ( /\ LookedUp
      /\ Loadable(last.pre, last.path)
      /\ HasHeader(LastText, "default")
      /\ IF HasKey(LastText, "default", "mfa_device_id")
         THEN ValueOf(LastText, "default", "mfa_device_id") = ""
         ELSE TRUE )
    => ( /\ last.id = ""
         /\ last.err = << "mfa_device_id", "key not found in default section of",
                          last.path >> )

\* A lookup on a file whose default section gives mfa_device_id the empty
\* value.
C3_Witness ==
    /\ LookedUp
    /\ Loadable(last.pre, last.path)
    /\ HasHeader(LastText, "default")
    /\ HasKey(LastText, "default", "mfa_device_id")
    /\ ValueOf(LastText, "default", "mfa_device_id") = ""
    /\ last.err # NoErr

\* The error of the library for a path that cannot be loaded.
LoadCause(files, path) ==
    IF files[path] = NoFile
    THEN << "open", path, "no such file or directory" >>
    ELSE << "key-value delimiter not found" >>

\* C4: a lookup on a path without a file, or with a file that does not
\* load, returns the empty id and an error whose message is "Could not read
\* from credentials file", the path and the message of the cause.
C4_UnreadableFileError ==
    ( LookedUp /\ ~Loadable(last.pre, last.path) )
    => ( /\ last.id = ""
         /\ Len(last.err) > 3
         /\ last.err[1] = "Could not read from credentials file"
         /\ last.err[2] = last.path
         /\ SubSeq(last.err, 4, Len(last.err)) = LoadCause(last.pre, last.path) )

\* A lookup on a path at which no file exists.
C4_Witness ==
    /\ LookedUp
    /\ last.pre[last.path] = NoFile
    /\ last.err # NoErr

\* ------------------------------------------------------------------------
\* Properties of saving the session credentials

\* The latest mfile call was a save that was given three strings.
Saved == last.op = "save" /\ \A i \in 1..3 : last.cred[i] # NilPtr

\* The text now at the path of the latest mfile call.
NowText == fs[last.path]

\* The three keys of a session section, in the order of the credentials.
SessionKeys == << "aws_access_key_id", "aws_secret_access_key", "aws_session_token" >>

\* C5: a save of (A, B, C) to a loadable file, which the process may write,
\* with a default section and no default-session section returns the nil
\* error, and the file then loads with a default-session section that gives
\* the three credential keys the values A, B and C; a save made by an
\* invocation has --save among its arguments and saves what the exchange of
\* the invocation returned.
C5_SaveRoundTrip ==
    /\ ( /\ Saved
         /\ Loadable(last.pre, last.path)
         /\ writable[last.path]
         /\ HasHeader(LastText, "default")
         /\ ~HasHeader(LastText, "default-session") )
       => ( /\ last.err = NoErr
            /\ Load(fs, last.path).err = NoErr
            /\ SecIndex(Load(fs, last.path).cfg, "default-session") # 0
            /\ \A i \in 1..3 :
                  /\ KeyValue(Load(fs, last.path).cfg, "default-session",
                              SessionKeys[i]) = last.cred[i]
                  /\ HasKey(NowText, "default-session", SessionKeys[i])
                  /\ ValueOf(NowText, "default-session", SessionKeys[i]) = last.cred[i] )
    /\ ( Saved /\ events # << >> )
       => ( /\ \E i \in 1..Len(cmdArgs) : cmdArgs[i] = "--save"
            /\ Len(stsCalls) = 1
            /\ last.cred = stsCalls[1].result.creds )

\* An invocation with --save saved the credentials of its exchange to a
\* file with a default section and no default-session section.
C5_Witness ==
    /\ Saved
    /\ events # << >>
    /\ Loadable(last.pre, last.path)
    /\ writable[last.path]
    /\ HasHeader(LastText, "default")
    /\ ~HasHeader(LastText, "default-session")
    /\ last.cred = << "k2", "s2", "t2" >>
    /\ pc = "done"

\* The values of all credential triples.
CredValues == UNION { { t[1], t[2], t[3] } : t \in Triples }

\* C6: after a save that returned the nil error the file has one
\* [default-session] header, one line for each of the three credential keys
\* under it, with the values of that save, and no line with a value of
\* another save.
C6_OneSessionSection ==
    ( Saved /\ last.err = NoErr )
    => ( /\ Cardinality({ i \in 1..Len(NowText) :
                             NowText[i] = SecLine("default-session") }) = 1
         /\ \A i \in 1..3 :
               /\ Cardinality(Occurrences(NowText, "default-session",
                                          SessionKeys[i])) = 1
               /\ ValueOf(NowText, "default-session", SessionKeys[i]) = last.cred[i]
         /\ \A j \in 1..Len(NowText) :
               NowText[j].v \in CredValues
               => NowText[j].v \in { last.cred[1], last.cred[2], last.cred[3] } )

\* A save over a session section that held the triple of an earlier save.
C6_Witness ==
    /\ Saved
    /\ last.err = NoErr
    /\ Loadable(last.pre, last.path)
    /\ HasKey(LastText, "default-session", "aws_session_token")
    /\ ValueOf(LastText, "default-session", "aws_session_token") = "t1"
    /\ last.cred = << "k2", "s2", "t2" >>

\* The section names a text mentions, and the one for lines above any header.
SectionsOf(text) ==
    { text[i].n : i \in { j \in 1..Len(text) : text[j].t = "sec" } }
    \cup { IniDefaultSection }

\* The key names a text mentions.
KeysOf(text) == { text[i].n : i \in { j \in 1..Len(text) : text[j].t = "key" } }

\* Section name has the same header, keys and values in texts a and b.
SameSection(a, b, name) ==
    /\ HasHeader(a, name) <=> HasHeader(b, name)
    /\ \A k \in KeysOf(a) \cup KeysOf(b) :
          /\ HasKey(a, name, k) <=> HasKey(b, name, k)
          /\ HasKey(a, name, k) => ValueOf(a, name, k) = ValueOf(b, name, k)

\* C7: a save that returned the nil error leaves every section but
\* default-session with the keys and values it had, and every other file as
\* it was.
C7_SaveFrame ==
    ( Saved /\ last.err = NoErr )
    => ( /\ \A name \in (SectionsOf(LastText) \cup SectionsOf(NowText))
                          \ { "default-session" } :
               SameSection(LastText, NowText, name)
         /\ \A q \in Paths \ { last.path } : fs[q] = last.pre[q] )

\* A save to a file whose default section gives a device id.
C7_Witness ==
    /\ Saved
    /\ last.err = NoErr
    /\ HasKey(LastText, "default", "mfa_device_id")
    /\ ValueOf(LastText, "default", "mfa_device_id") = "d1"
    /\ NowText # LastText

\* C8: a save to a path without a loadable file returns an error and leaves
\* every path as it was: no file is written or created.
C8_SaveNeedsLoadableFile ==
    ( last.op = "save" /\ ~Loadable(last.pre, last.path) )
    => ( /\ last.err # NoErr
         /\ fs = last.pre )

\* A save to a path at which no file exists, in a directory that would
\* allow creating it.
C8_Witness ==
    /\ last.op = "save"
    /\ last.pre[last.path] = NoFile
    /\ writable[last.path]
    /\ last.err # NoErr

\* ------------------------------------------------------------------------
\* Properties of an invocation

\* An invocation is under way or has ended, and RunE has been entered.
InRunE == pc \in {"runE", "exchange", "output", "returned", "done", "exited", "panicked"}

\* The invocation has no positional argument or the single one "help".
AskedForHelp == Positional(cmdArgs) = << >> \/ Positional(cmdArgs) = << "help" >>

\* Where cobra writes the help of this invocation.
HelpOutput == IF toBuffer THEN outBuf ELSE stdout

\* seq has the lines of sub, in order and without a gap.
HasLines(seq, sub) ==
    \E i \in 0..(Len(seq) - Len(sub)) : SubSeq(seq, i + 1, i + Len(sub)) = sub

\* C9: an invocation with no positional argument, or with the single one
\* "help", makes no lookup, no remote call and no other call of mfile, leaves
\* every file as it was, prints the usage once RunE has run, and ends with
\* no error and, as a process of its own, with exit status 0.
C9_HelpInvocation ==
    ( InRunE /\ AskedForHelp )
    => ( /\ pc \in {"runE", "returned", "done"}
         /\ \A i \in 1..Len(events) : events[i].call = "help"
         /\ stsCalls = << >>
         /\ last = NoCall
         /\ fs = startFs
         /\ runErr = NoErr
         /\ pc \in {"returned", "done"}
            => HasLines(HelpOutput, << << "Usage:" >>, << "mafia token-code [flags]" >> >>)
         /\ pc = "done"
            => ( executeError = NoErr /\ (~unitTesting => exitStatus = 0) ) )

\* A process started with the argument help has ended with status 0.
C9_Witness ==
    /\ pc = "done"
    /\ cmdArgs = << "help" >>
    /\ ~unitTesting
    /\ exitStatus = 0
    /\ events = << Event("help", NoErr) >>

\* C10: the remote call of an invocation comes after a lookup that returned
\* the nil error; after a lookup that returned an error the invocation makes
\* no remote call, and RunE returns and Execute keeps that error.
C10_LookupBeforeExchange ==
    /\ \A i \in 1..Len(events) :
          events[i].call = "sts"
          => \E j \in 1..(i - 1) : events[j].call = "lookup" /\ events[j].err = NoErr
    /\ stsCalls # << >> => \E i \in 1..Len(events) : events[i].call = "sts"
    /\ \A j \in 1..Len(events) :
          ( events[j].call = "lookup" /\ events[j].err # NoErr )
          => ( /\ \A i \in 1..Len(events) : events[i].call # "sts"
               /\ stsCalls = << >>
               /\ pc \in {"returned", "done", "exited"}
               /\ runErr = events[j].err
               /\ pc \in {"done", "exited"} => executeError = events[j].err )

\* An invocation with a token code and no credentials file has ended with
\* the error of the lookup.
C10_Witness ==
    /\ pc = "exited"
    /\ Len(events) = 1
    /\ events[1].call = "lookup"
    /\ events[1].err # NoErr
    /\ startFs[defaultCredentialsFilePath] = NoFile
    /\ executeError = events[1].err

\* ------------------------------------------------------------------------
\* Properties of what an invocation writes and how it ends

\* The invocation was given the flag --save.
Flagged == \E i \in 1..Len(cmdArgs) : cmdArgs[i] = "--save"

\* The invocation's remote call answered with credentials, none of them nil.
Exchanged ==
    /\ Len(stsCalls) = 1
    /\ stsCalls[1].result.err = NoErr
    /\ stsCalls[1].result.hasCreds
    /\ \A i \in 1..3 : stsCalls[1].result.creds[i] # NilPtr

\* The lines for the shell: the three exports and the reminder.
ExportBlock(k, s, t) ==
    << << "export AWS_ACCESS_KEY_ID=", k >>,
       << "export AWS_SECRET_ACCESS_KEY=", s >>,
       << "export AWS_SESSION_TOKEN=", t >>,
       << "history -c # clear shell history immediatly after setting secrets" >> >>

\* The lines to paste into the credentials file.
PasteBlock(k, s, t) ==
    << << "[default-session]" >>,
       << "aws_access_key_id = ", k >>,
       << "aws_secret_access_key = ", s >>,
       << "aws_session_token = ", t >> >>

\* seq has the lines of a and, after them, the lines of b.
HasInOrder(seq, a, b) ==
    \E i \in 0..Len(seq), j \in 0..Len(seq) :
        /\ i + Len(a) <= j
        /\ j + Len(b) <= Len(seq)
        /\ SubSeq(seq, i + 1, i + Len(a)) = a
        /\ SubSeq(seq, j + 1, j + Len(b)) = b

\* C11: an invocation without --save whose lookup and exchange succeeded with
\* the credentials (k, s, t) goes on to the display and returns no error;
\* once RunE has returned, standard output has the three export lines for k,
\* s and t, the reminder to clear the history and, after them, the
\* [default-session] block with the same three values as key = value; the
\* invocation ends with no error and, as a process of its own, with status 0.
C11_DisplayOutput ==
    ( ~Flagged /\ Exchanged )
    => LET c == stsCalls[1].result.creds
       IN  /\ pc \in {"output", "returned", "done"}
           /\ runErr = NoErr
           /\ pc \in {"returned", "done"}
              => HasInOrder(stdout, ExportBlock(c[1], c[2], c[3]),
                                    PasteBlock(c[1], c[2], c[3]))
           /\ pc = "done"
              => ( executeError = NoErr /\ (~unitTesting => exitStatus = 0) )

\* A process started with a token code only has displayed the credentials
\* (k2, s2, t2) and ended.
C11_Witness ==
    /\ pc = "done"
    /\ ~unitTesting
    /\ cmdArgs = << "123456" >>
    /\ Exchanged
    /\ stsCalls[1].result.creds = << "k2", "s2", "t2" >>
    /\ Len(stdout) = 11

\* The error the invocation's save returned, NoErr when it made none.
SaveError ==
    IF \E i \in 1..Len(events) : events[i].call = "save"
    THEN events[CHOOSE i \in 1..Len(events) : events[i].call = "save"].err
    ELSE NoErr

\* The invocation made a save.
SaveMade == \E i \in 1..Len(events) : events[i].call = "save"

\* The confirmation is on standard output.
ConfirmationPrinted ==
    \E i \in 1..Len(stdout) : stdout[i] = << "Session credentials saved to file" >>

\* C12: the confirmation "Session credentials saved to file" is displayed
\* only when the save succeeded: in no invocation is the confirmation printed
\* and a save error also returned.
C12_ConfirmationOnlyOnSuccess ==
    ConfirmationPrinted => ( SaveMade /\ SaveError = NoErr /\ runErr = NoErr )

\* Execute has returned or has ended the process.
Ended == pc \in {"done", "exited"}

\* The line has the message err in it.
Mentions(line, err) ==
    /\ err # NoErr
    /\ \E i \in 0..(Len(line) - Len(err)) : SubSeq(line, i + 1, i + Len(err)) = err

\* How many lines of seq have the message err in them.
MentionCount(seq, err) == Cardinality({ i \in 1..Len(seq) : Mentions(seq[i], err) })

\* How many lines the invocation wrote, on any stream, with err in them.
PrintCount(err) ==
    MentionCount(stdout, err) + MentionCount(outBuf, err) + MentionCount(stderr, err)

\* The line is one of the usage, of the display or the confirmation.
NormalLine(line) ==
    /\ line # << >>
    /\ line[1] \in { "Usage:", "mafia token-code [flags]", "Environment Variables",
                     "export AWS_ACCESS_KEY_ID=", "export AWS_SECRET_ACCESS_KEY=",
                     "export AWS_SESSION_TOKEN=",
                     "history -c # clear shell history immediatly after setting secrets",
                     "To paste into ~/.aws/credentials", "[default-session]",
                     "aws_access_key_id = ", "aws_secret_access_key = ",
                     "aws_session_token = ", "Session credentials saved to file", "" }

\* The errors the invocation's lookup, remote call and save returned.
Failures ==
    { events[i].err : i \in { j \in 1..Len(events) :
          events[j].call \in {"lookup", "sts", "save"} /\ events[j].err # NoErr } }

\* C13: an invocation whose lookup, exchange or save failed ends with that
\* error; an invocation that ended with an error has printed a line with that
\* error's message exactly once and, outside unit tests, has exited with a
\* status that is not zero; an invocation that ended without an error has
\* printed no line but those of the usage, the display and the confirmation
\* and, outside unit tests, has ended with status 0.
C13_ErrorPrintedOnce ==
    Ended
    => /\ \A e \in Failures : executeError = e
       /\ executeError # NoErr
          => ( /\ executeError \in Failures
               /\ PrintCount(executeError) = 1
               /\ ~unitTesting => ( pc = "exited" /\ exitStatus > 0 ) )
       /\ executeError = NoErr
          => ( /\ \A i \in 1..Len(stdout) : NormalLine(stdout[i])
               /\ \A i \in 1..Len(outBuf) : NormalLine(outBuf[i])
               /\ stderr = << >>
               /\ pc = "done"
               /\ ~unitTesting => exitStatus = 0 )

\* A process whose remote call was refused has printed the error and exited
\* with status 1.
C13_Witness ==
    /\ pc = "exited"
    /\ exitStatus = 1
    /\ executeError = << "AccessDenied" >>
    /\ Len(stsCalls) = 1
    /\ PrintCount(executeError) = 1

\* C14: the error message of an invocation that ended with an error is on
\* standard error, and no line of standard output has it.
C14_ErrorToErrorStream ==
    ( Ended /\ executeError # NoErr )
    => ( /\ MentionCount(stderr, executeError) > 0
         /\ MentionCount(stdout, executeError) = 0 )

\* The invocation has no token code: no positional argument at all.
MissingToken == Positional(cmdArgs) = << >>

StsEvents == Cardinality({ i \in 1..Len(events) : events[i].call = "sts" })

\* C16: an invocation makes the remote call at most once: after a call, failed
\* or not, it is never again where the remote call is made, and the calls
\* recorded stay at one.
C16_AtMostOneRemoteCall ==
    /\ Len(stsCalls) <= 1
    /\ StsEvents = Len(stsCalls)
    /\ Len(stsCalls) = 1 => pc \in {"output", "returned", "done", "exited", "panicked"}

\* An invocation whose remote call failed has ended with one call made.
C16_Witness ==
    /\ pc = "exited"
    /\ Len(stsCalls) = 1
    /\ stsCalls[1].result.err = << "InvalidParameter", "minimum field size of 6" >>
    /\ StsEvents = 1

\* C17: when the remote call of an invocation returned an error e, with or
\* without credentials beside it, GetSessionCredentials returned nil
\* credentials and e itself, RunE returned e, no save and no display were
\* made, and the invocation ends with executeError equal to e.
C17_RemoteErrorUnchanged ==
    ( Len(stsCalls) >= 1 /\ stsCalls[1].result.err # NoErr )
    => LET e == stsCalls[1].result.err
       IN  /\ credentials = NoCreds
           /\ runErr = e
           /\ pc \in {"returned", "done", "exited"}
           /\ \A i \in 1..Len(events) : events[i].call \in {"lookup", "sts"}
           /\ Ended => executeError = e

\* An invocation whose remote call returned AccessDenied beside credentials
\* has ended with that error.
C17_Witness ==
    /\ Ended
    /\ Len(stsCalls) = 1
    /\ stsCalls[1].result.err = << "AccessDenied" >>
    /\ stsCalls[1].result.hasCreds
    /\ executeError = << "AccessDenied" >>

\* ------------------------------------------------------------------------
\* Properties of GetSessionCredentials

\* C18: whatever the device identifier, the token code and the duration
\* GetSessionCredentials is called with, the function behind the remote call
\* is called, with exactly these three values as SerialNumber, TokenCode and
\* DurationSeconds; when it answers with Credentials and no error,
\* GetSessionCredentials returns the nil error and exactly the access key
\* id, the secret access key and the session token of the answer.
C18_PassThrough ==
    credsCall # NoCredsCall
    => /\ credsCall.result \in Responses
       /\ credsCall.input.SerialNumber = credsCall.args[1]
       /\ credsCall.input.TokenCode = credsCall.args[2]
       /\ credsCall.input.DurationSeconds = credsCall.args[3]
       /\ ( credsCall.result.err = NoErr /\ credsCall.result.hasCreds )
          => ( /\ ~credsCall.panic
               /\ credsCall.err = NoErr
               /\ Len(credsCall.creds) = 3
               /\ \A i \in 1..3 : credsCall.creds[i] = credsCall.result.creds[i] )

\* GetSessionCredentials was called with an empty device id, a token code
\* of two characters and a duration above the range, and has returned the
\* credentials of the answer.
C18_Witness ==
    /\ credsCall # NoCredsCall
    /\ credsCall.args = << "", "12", 129601 >>
    /\ credsCall.input.DurationSeconds = 129601
    /\ credsCall.err = NoErr
    /\ credsCall.creds = << "k2", "s2", "t2" >>

\* ------------------------------------------------------------------------
\* Properties of the two outputs

\* The invocation made a display.
DisplayMade == \E i \in 1..Len(events) : events[i].call = "display"

\* The values of the credentials the invocation's remote call answered with.
SecretValues ==
    IF Len(stsCalls) >= 1 /\ stsCalls[1].result.hasCreds
    THEN { stsCalls[1].result.creds[i] : i \in 1..3 } \ { NilPtr }
    ELSE {}

\* A line of seq has one of the values of the credentials.
Renders(seq) ==
    \E i \in 1..Len(seq) : \E j \in 1..Len(seq[i]) : seq[i][j] \in SecretValues

\* C19: in an invocation with --save no display is made and no line written
\* on any stream has a value of the credentials; in an invocation without
\* --save no save is made and every file stays as it was when the invocation
\* started; no invocation makes both a display and a save.
C19_DisplayXorSave ==
    InRunE
    => /\ Flagged => ( /\ ~DisplayMade
                       /\ ~Renders(stdout) /\ ~Renders(outBuf) /\ ~Renders(stderr) )
       /\ ~Flagged => ( ~SaveMade /\ last.op # "save" /\ fs = startFs )
       /\ ~( DisplayMade /\ SaveMade )

\* An invocation with --save has saved the credentials and shown none, and
\* the file is not what it was.
C19_Witness ==
    /\ pc = "done"
    /\ Flagged
    /\ SaveMade
    /\ SaveError = NoErr
    /\ fs # startFs
    /\ ~Renders(stdout)

\* C20: when the save of an invocation with --save returned an error, no
\* display is made and no line written has a value of the credentials; RunE
\* returns the error of the save, and the invocation ends with that error
\* printed once and, outside unit tests, with a status that is not zero.
C20_NoDisplayFallback ==
    ( SaveMade /\ SaveError # NoErr )
    => /\ Flagged
       /\ ~DisplayMade
       /\ ~Renders(stdout) /\ ~Renders(outBuf) /\ ~Renders(stderr)
       /\ pc \in {"returned", "done", "exited"}
       /\ runErr = SaveError
       /\ Ended => ( /\ executeError = SaveError
                     /\ PrintCount(SaveError) = 1
                     /\ ~unitTesting => ( pc = "exited" /\ exitStatus > 0 ) )

\* A process started with a token code and --save could not write the file
\* and has exited with status 1.
C20_Witness ==
    /\ pc = "exited"
    /\ exitStatus = 1
    /\ SaveMade
    /\ SaveError # NoErr
    /\ SecretValues # {}
    /\ fs = startFs

\* ------------------------------------------------------------------------
\* Properties of the sequence lookup, exchange, output

\* The lookup or the remote call of the invocation returned an error.
FetchFailed ==
    \E i \in 1..Len(events) :
        events[i].call \in {"lookup", "sts"} /\ events[i].err # NoErr

\* C21: when the lookup or the remote call of an invocation returned an
\* error, that call is the last one the invocation makes: no display and no
\* save is made, no line written has a value of the credentials or the
\* confirmation, and every file is as it was when the invocation started.
C21_StopsAtFirstFailure ==
    FetchFailed
    => /\ events[Len(events)].call \in {"lookup", "sts"}
       /\ events[Len(events)].err # NoErr
       /\ \A i \in 1..(Len(events) - 1) : events[i].err = NoErr
       /\ ~DisplayMade
       /\ ~SaveMade
       /\ last.op # "save"
       /\ ~ConfirmationPrinted
       /\ ~Renders(stdout) /\ ~Renders(outBuf) /\ ~Renders(stderr)
       /\ fs = startFs
       /\ pc \in {"returned", "done", "exited"}

\* An invocation with --save whose remote call returned an error beside
\* credentials has ended, and the file is as it was.
C21_Witness ==
    /\ Ended
    /\ Flagged
    /\ Len(stsCalls) = 1
    /\ stsCalls[1].result.err # NoErr
    /\ stsCalls[1].result.hasCreds
    /\ fs = startFs
    /\ Len(events) = 2

\* ------------------------------------------------------------------------
\* More properties of the credentials file

\* C22: after a lookup, whether it returned an id or an error, every path
\* that had no file has none, and every file has the sections, keys and
\* values, and the very lines, it had before the lookup.
C22_LookupReadOnly ==
    LookedUp
    => /\ \A p \in Paths :
             /\ last.pre[p] = NoFile <=> fs[p] = NoFile
             /\ fs[p] # NoFile
                => \A name \in SectionsOf(last.pre[p]) \cup SectionsOf(fs[p]) :
                      SameSection(last.pre[p], fs[p], name)
       /\ fs = last.pre

\* A lookup on a path without a file has returned an error, and the path
\* still has no file.
C22_Witness ==
    /\ LookedUp
    /\ last.path = MissingPath
    /\ last.err # NoErr
    /\ fs[MissingPath] = NoFile
    /\ fs[HomePath] # NoFile

\* ------------------------------------------------------------------------
\* Properties of the function behind the remote call

\* C23: the package holds the function the latest SetGetSessionTokenFunc or
\* ResetPackageDefaults asked for, and a call of GetSessionCredentials invokes
\* that function, and no other, exactly once: the function f after
\* SetGetSessionTokenFunc(f), the call of the real service after
\* ResetPackageDefaults, whatever was asked for before.
C23_Substitutable ==
    /\ getSessionTokenFunc = requested[2]
    /\ credsCall # NoCredsCall
       => ( /\ Len(credsCall.invoked) = 1
            /\ credsCall.invoked[1] = credsCall.after[2]
            /\ credsCall.after[2] \in MockFuncs => credsCall.invoked[1] # "aws" )

\* GetSessionCredentials was called after a ResetPackageDefaults that came
\* after SetGetSessionTokenFunc(mock1), and has invoked the real service.
C23_Witness ==
    /\ credsCall # NoCredsCall
    /\ credsCall.after = << "mock1", "aws" >>
    /\ credsCall.invoked = << "aws" >>

\* ------------------------------------------------------------------------
\* More properties of what an invocation writes

\* A line of seq is a line of the usage.
ShowsUsage(seq) ==
    \E i \in 1..Len(seq) : seq[i] \in { << "Usage:" >>, << "mafia token-code [flags]" >> }

\* C24: an invocation that ended with an error, that of its lookup, of its
\* remote call or of its save, has written no line of the usage on any
\* stream, and the output buffer of the command is empty.
C24_NoUsageOnError ==
    ( Ended /\ executeError # NoErr )
    => ( /\ outBuf = << >>
         /\ ~ShowsUsage(stdout)
         /\ ~ShowsUsage(stderr)
         /\ \A i \in 1..Len(events) : events[i].call # "help" )

\* An invocation of a unit test, with its output in a buffer, has ended with
\* the error of the remote call.
C24_Witness ==
    /\ pc = "done"
    /\ unitTesting
    /\ toBuffer
    /\ executeError = << "InvalidParameter", "minimum field size of 6" >>
    /\ outBuf = << >>

\* ------------------------------------------------------------------------
\* Properties of saves and lookups together

\* The lookup on the file the latest mfile call found at its path, and on
\* the file that is there now.
LookupBefore == GetMFADeviceIDFromFile(last.pre, last.path)
LookupNow == GetMFADeviceIDFromFile(fs, last.path)

\* C25: when the lookup on a file returns the id v and the nil error, then
\* after a save to that file that returned the nil error, whatever the
\* credentials, the lookup on it returns v and the nil error still, and the
\* default section of the file still gives mfa_device_id the value v.  The
\* files saves are made to include those earlier saves have written, so this
\* holds after any sequence of such saves.
C25_SavesKeepLookup ==
    ( Saved /\ last.err = NoErr /\ LookupBefore.err = NoErr )
    => ( /\ LookupNow.err = NoErr
         /\ LookupNow.id = LookupBefore.id
         /\ HasKey(NowText, "default", "mfa_device_id")
         /\ ValueOf(NowText, "default", "mfa_device_id") = LookupBefore.id )

\* A second save, with other credentials, to a file that gives the device
\* id d2 has returned the nil error.
C25_Witness ==
    /\ Saved
    /\ last.err = NoErr
    /\ LookupBefore.err = NoErr
    /\ LookupBefore.id = "d2"
    /\ HasHeader(LastText, "default-session")
    /\ HasKey(LastText, "default-session", "aws_session_token")
    /\ NowText # LastText

\* How a credentials file spells the header of a section and the start of
\* a line that gives a key a value.
HeaderText(name) ==
    CASE name = "default" -> "[default]"
      [] name = "default-session" -> "[default-session]"
      [] OTHER -> "[?]"

KeyText(k) ==
    CASE k = "aws_access_key_id" -> "aws_access_key_id = "
      [] k = "aws_secret_access_key" -> "aws_secret_access_key = "
      [] k = "aws_session_token" -> "aws_session_token = "
      [] k = "mfa_device_id" -> "mfa_device_id = "
      [] OTHER -> "? = "

\* The keys the save sets, in the order of the credentials.
WriterKeys == << AccessKeyIDKey, SecretAccessKeyKey, SessionTokenKey >>

\* The four lines of out from the header of the session section on; the
\* empty sequence when out has no such header.
PasteShown(out) ==
    LET at == { i \in 1..Len(out) : out[i] = << HeaderText(SessionSectionName) >> }
    IN  IF at = {} \/ Len(out) < Max(at) + 3 THEN << >>
        ELSE SubSeq(out, Max(at), Max(at) + 3)

\* The block agrees with the session section of text: its header is that
\* of the section the save writes, and its three lines are the keys the save
\* sets with the values text gives them.
Agrees(block, text) ==
    /\ Len(block) = 4
    /\ block[1] = << HeaderText(SessionSectionName) >>
    /\ HasHeader(text, "default-session")
    /\ \A i \in 1..3 :
          /\ Len(block[i + 1]) = 2
          /\ block[i + 1][1] = KeyText(WriterKeys[i])
          /\ HasKey(text, "default-session", SessionKeys[i])
          /\ block[i + 1][2] = ValueOf(text, "default-session", SessionKeys[i])

\* C26: the block displayed for pasting agrees with the section a save
\* writes: for the credentials of a save that returned the nil error, the
\* display would show the header of the session section and the three keys
\* the save sets with the values now in the file; and what an invocation has
\* displayed agrees with the file a save of its credentials would write.
C26_DisplayAgreesWithSave ==
    /\ ( Saved /\ last.err = NoErr )
       => Agrees(PasteShown(displaySessionCredentials(last.cred).out), NowText)
    /\ ( DisplayMade /\ pc \in {"returned", "done"}
         /\ Loadable(fs, defaultCredentialsFilePath) )
       => LET r == SaveSessionCredentialsToFile(fs, [p \in Paths |-> TRUE],
                       defaultCredentialsFilePath,
                       credentials[1], credentials[2], credentials[3])
          IN  /\ r.err = NoErr
              /\ Agrees(PasteShown(stdout), r.files[defaultCredentialsFilePath])

\* An invocation has displayed the credentials (k1, s1, t1) for a file that
\* had a session section with other values.
C26_Witness ==
    /\ DisplayMade
    /\ pc = "done"
    /\ credentials = << "k1", "s1", "t1" >>
    /\ Len(PasteShown(stdout)) = 4
    /\ Loadable(fs, defaultCredentialsFilePath)

\* ------------------------------------------------------------------------
\* Properties of nil values

\* C27: whatever the remote call answers, the credentials the exchange hands
\* on are nil with an error, or have all three fields with the nil error,
\* and neither the exchange nor the display or the save after it
\* dereferences a nil value.
C27_NoNilDereference ==
    /\ pc # "panicked"
    /\ stderr = << >>
    /\ credentials # NoCreds
       => ( runErr = NoErr /\ \A i \in 1..3 : credentials[i] # NilPtr )
    /\ ( Len(stsCalls) = 1 /\ credentials = NoCreds ) => runErr # NoErr

\* ------------------------------------------------------------------------
\* Properties of invocations that follow one another in a process

\* C28: in a process that runs invocations one after another, each prepared
\* by prepForExecute, the flag variable is false when an invocation is
\* prepared and is true in RunE only when --save is among the invocation's
\* own arguments; an invocation without --save makes no save and leaves
\* every file as it found it, also when an earlier invocation had --save.
C28_SaveFlagDoesNotLeak ==
    unitTesting
    => /\ pc = "ready" => ~saveCredentials
       /\ InRunE => ( saveCredentials <=> Flagged )
       /\ ( InRunE /\ ~Flagged )
          => ( ~SaveMade /\ ~ConfirmationPrinted /\ fs = startFs )

\* An invocation without --save, in a process in which an earlier invocation
\* had --save, has displayed the credentials and written no file.
C28_Witness ==
    /\ unitTesting
    /\ earlierSave
    /\ pc = "done"
    /\ ~Flagged
    /\ DisplayMade
    /\ fs = startFs
    /\ HasKey(fs[HomePath], "default-session", "aws_session_token")

\* ------------------------------------------------------------------------
\* Two processes saving to the same file at once

\* The processes.
Procs == {1, 2}

\* Process p, with credentials in hand, loads the file: the first step of
\* SaveSessionCredentialsToFile.
RaceLoad(p) ==
    /\ procs[p].at = "start"
    /\ LET l == Load(fs, defaultCredentialsFilePath)
       IN  procs' = [procs EXCEPT ![p] =
               IF l.err # NoErr
               THEN [@ EXCEPT !.at = "failed",
                              !.err = ErrCouldNotRead(defaultCredentialsFilePath, l.err)]
               ELSE [@ EXCEPT !.at = "loaded", !.cfg = l.cfg]]
    /\ UNCHANGED fileVars
    /\ UNCHANGED << getSessionTokenFunc, unitTesting, executeError,
                    saveCredentials, pc, cmdArgs, toBuffer, outBuf, stdout,
                    mfaDeviceID, credentials, runErr, events, stsCalls, startFs,
                    exitStatus, stderr, credsCall, requested, earlierSave,
                    checked >>

\* RaceWrite setting a key of the session section only when the file
\* loaded did not have it.
RaceWrite_SkipExisting(p) ==
    /\ procs[p].at = "loaded"
    /\ LET c0 == Section(procs[p].cfg, SessionSectionName)
           old == c0[SecIndex(c0, SessionSectionName)].keys
           set(c, k, v) == IF KeyIndex(old, k) # 0 THEN c
                           ELSE NewKey(c, SessionSectionName, k, v)
           c1 == set(c0, AccessKeyIDKey, procs[p].cred[1])
           c2 == set(c1, SecretAccessKeyKey, procs[p].cred[2])
           c3 == set(c2, SessionTokenKey, procs[p].cred[3])
           s  == SaveTo(fs, writable, c3, defaultCredentialsFilePath)
       IN  /\ fs' = s.files
           /\ procs' = [procs EXCEPT ![p] =
                  IF s.err # NoErr
                  THEN [@ EXCEPT !.at = "failed", !.err = s.err]
                  ELSE [@ EXCEPT !.at = "written"]]
    /\ UNCHANGED << writable, defaultCredentialsFilePath, last >>
    /\ UNCHANGED << getSessionTokenFunc, unitTesting, executeError,
                    saveCredentials, pc, cmdArgs, toBuffer, outBuf, stdout,
                    mfaDeviceID, credentials, runErr, events, stsCalls, startFs,
                    exitStatus, stderr, credsCall, requested, earlierSave,
                    checked >>

\* Process p sets the three keys in the structure it loaded and writes the
\* whole structure to the file: the rest of SaveSessionCredentialsToFile.
RaceWrite(p) ==
    /\ procs[p].at = "loaded"
    /\ LET c0 == Section(procs[p].cfg, SessionSectionName)
           c1 == NewKey(c0, SessionSectionName, AccessKeyIDKey, procs[p].cred[1])
           c2 == NewKey(c1, SessionSectionName, SecretAccessKeyKey, procs[p].cred[2])
           c3 == NewKey(c2, SessionSectionName, SessionTokenKey, procs[p].cred[3])
           s  == SaveTo(fs, writable, c3, defaultCredentialsFilePath)
       IN  /\ fs' = s.files
           /\ procs' = [procs EXCEPT ![p] =
                  IF s.err # NoErr
                  THEN [@ EXCEPT !.at = "failed", !.err = s.err]
                  ELSE [@ EXCEPT !.at = "written"]]
    /\ UNCHANGED << writable, defaultCredentialsFilePath, last >>
    /\ UNCHANGED << getSessionTokenFunc, unitTesting, executeError,
                    saveCredentials, pc, cmdArgs, toBuffer, outBuf, stdout,
                    mfaDeviceID, credentials, runErr, events, stsCalls, startFs,
                    exitStatus, stderr, credsCall, requested, earlierSave,
                    checked >>

\* Two processes, each with credentials of its own, about to save to the
\* credentials file, which has any content.
InitRace ==
    /\ InitFiles
    /\ InitCmd
    /\ checked = NoCheck
    /\ \E a \in Triples, b \in Triples :
          procs = [p \in Procs |->
                     [at |-> "start", cfg |-> EmptyFile,
                      cred |-> IF p = 1 THEN a ELSE b, err |-> NoErr]]

NextRace ==
    \/ \E p \in Procs : RaceLoad(p)
    \/ \E p \in Procs : RaceWrite(p)

\* The loads and the writes of the two processes, in any order.
SpecRace == InitRace /\ [][NextRace]_vars

\* The processes that have written the file.
Written == { p \in Procs : procs[p].at = "written" }

\* The file the two processes save to, as it is and as it was at first.
RaceText == fs[defaultCredentialsFilePath]
RaceStart == startFs[defaultCredentialsFilePath]

\* The text has one header of the session section, and the section gives
\* the three credential keys, once each, the values of the triple c.
HoldsTriple(text, c) ==
    /\ Cardinality({ i \in 1..Len(text) :
           text[i].t = "sec" /\ text[i].n = "default-session" }) = 1
    /\ \A i \in 1..3 :
          /\ Cardinality(Occurrences(text, "default-session", SessionKeys[i])) = 1
          /\ ValueOf(text, "default-session", SessionKeys[i]) = c[i]

Contains(err, part) == \E i \in 1..Len(err) : err[i] = part

\* checkForExpectedSTSCallFailure(err): whether it panicked and what it
\* returned.  Its condition starts with err != nil ||, so any error makes it
\* true, and for the nil error the next operand calls err.Error() on nil.
checkForExpectedSTSCallFailure(err) ==
    LET notNil == err # NoErr
        expected == \/ Contains(err, "Could not read from credentials file")
                    \/ Contains(err, "minimum field size of 6")
    IN  IF notNil
        THEN [panic |-> FALSE, result |-> TRUE]
        ELSE IF err = NoErr
             THEN [panic |-> TRUE, result |-> FALSE]
             ELSE [panic |-> FALSE, result |-> expected]

\* The errors the operations of the program return on the files as they
\* are, the nil error among them.
ErrorsNow ==
    { NoErr } \cup StsErrors
    \cup { GetMFADeviceIDFromFile(fs, p).err : p \in Paths }
    \cup { SaveSessionCredentialsToFile(fs, writable, p, "k1", "s1", "t1").err :
              p \in Paths }

\* A test calls checkForExpectedSTSCallFailure(err).
CallCheckForExpectedSTSCallFailure(err) ==
    /\ pc = "idle"
    /\ LET r == checkForExpectedSTSCallFailure(err)
       IN  /\ checked' = [called |-> TRUE, err |-> err, panic |-> r.panic,
                          result |-> r.result]
           /\ IF r.panic
              THEN pc' = "panicked" /\ exitStatus' = 2
                   /\ stderr' = Append(stderr, PanicMessage)
              ELSE UNCHANGED << pc, exitStatus, stderr >>
    /\ UNCHANGED fileVars
    /\ UNCHANGED << getSessionTokenFunc, unitTesting, executeError,
                    saveCredentials, cmdArgs, toBuffer, outBuf, stdout,
                    mfaDeviceID, credentials, runErr, events, stsCalls, startFs,
                    credsCall, requested, earlierSave, procs >>

NextCheck == \E e \in ErrorsNow : CallCheckForExpectedSTSCallFailure(e)

\* The helper called with the errors the program returns.
SpecCheck == Init /\ [][NextCheck]_vars

\* C30: checkForExpectedSTSCallFailure returns true only for an error whose
\* message has "Could not read from credentials file" or "minimum field size
\* of 6" in it, false for every other error, and false, without failing, for
\* the nil error.
C30_CheckExpectedFailure ==
    checked.called
    => /\ ~checked.panic
       /\ checked.result
          <=> ( \/ Contains(checked.err, "Could not read from credentials file")
                \/ Contains(checked.err, "minimum field size of 6") )

====
